---- MODULE Spec2Model ----
(***************************************************************************)
(* Model of the offline-first inventory cache engine                       *)
(* (src/src/lib/stores/inventoryCache.js) together with the remote record  *)
(* store it talks to through the proxy (src/src/lib/odoo.js,               *)
(* src/src/routes/api/odoo/+server.js).                                    *)
(*                                                                         *)
(* The engine is single threaded: an asynchronous call runs without        *)
(* interruption from one await to the next.  Every action below is one     *)
(* such run: the start of a call up to its first remote request, the       *)
(* remote store processing a request, or the continuation that runs when   *)
(* the response (or the failure) of a request is delivered.  Requests and  *)
(* responses of different calls are delivered in any order.                *)
(*                                                                         *)
(* Spec is the engine in one page session, started on an empty mirror,     *)
(* under sync, createRecord, updateRecord and deleteRecord.  SpecSession   *)
(* is the life cycle of the engine over a mirror left by an earlier        *)
(* session: initialize, destroy, the periodic timer, forceRefresh, sync.   *)
(***************************************************************************)
EXTENDS Integers, Sequences, FiniteSets, TLC

\* ---------------------------------------------------------------- bounds
MaxTasks == 2        \* engine calls that can be in flight at the same time
MaxId == 3           \* identities the remote store hands out: 1..MaxId
MaxCalls == 3        \* engine calls made in one behaviour
MaxSessionCalls == 2 \* engine calls made in one behaviour of SpecSession
MaxCallers == 2      \* callers of openDB
MaxBatch == 2        \* records in one bulkAdd batch
MaxRequests == 3     \* remote-client operations called in one behaviour of SpecClient
MaxNow == 7          \* last minute of the clock in SpecClock: past the freshness window

CreateNames == {"a"}     \* x_name of the records the consumer creates
UpdateNames == {"b"}     \* x_name the consumer writes with updateRecord
Names == CreateNames \cup UpdateNames

Tasks == 1..MaxTasks
Ids == 1..MaxId

VARIABLES
    state,      \* the published CacheState of the writable store
    storage,    \* localStorage: the two keys of the durable mirror
    remote,     \* records of the remote collection x_inventory
    nextId,     \* identity the remote store assigns to the next create
    now,        \* Date.now(), in minutes; the calls of Spec all fall into one minute
    tasks,      \* the engine calls in flight, one slot per call
    calls,      \* number of engine calls made so far
    syncInterval,   \* the closure variable: the timer armed last, 0 for null
    armed,      \* the interval timers that are armed (set and not cleared)
    mounts,     \* how often initialize and destroy have been called
    partnerMap, \* the cross-reference label map: identity -> label
    idb,        \* db.js: dbInstance, the open requests, the bulkAdd in progress
    client      \* odoo.js: the remote-client operation in progress

vars == <<state, storage, remote, nextId, now, tasks, calls,
          syncInterval, armed, mounts, partnerMap, idb, client>>

\* the two adapter modules, which the cache engine does not use
adapters == <<idb, client>>

\* what sync, createRecord, updateRecord and deleteRecord never touch
lifecycle == <<syncInterval, armed, mounts, partnerMap>>

\* ------------------------------------------------------- pure functions

Rec(i, n) == [id |-> i, x_name |-> n]

IdsOf(recs) == {recs[i].id : i \in DOMAIN recs}

SeqToSet(recs) == {recs[i] : i \in DOMAIN recs}

Max(S) == CHOOSE x \in S : \A y \in S : y <= x

\* Array.prototype.filter
RECURSIVE Filter(_, _)
Filter(recs, keep) ==
    IF recs = <<>> THEN <<>>
    ELSE IF Head(recs) \in keep
         THEN <<Head(recs)>> \o Filter(Tail(recs), keep)
         ELSE Filter(Tail(recs), keep)

\* r is placed behind every element whose id is not greater: the sort is
\* stable, as Array.prototype.sort is.
RECURSIVE Insert(_, _)
Insert(r, sorted) ==
    IF sorted = <<>> THEN <<r>>
    ELSE IF Head(sorted).id <= r.id
         THEN <<Head(sorted)>> \o Insert(r, Tail(sorted))
         ELSE <<r>> \o sorted

RECURSIVE SortFrom(_, _)
SortFrom(recs, acc) ==
    IF recs = <<>> THEN acc
    ELSE SortFrom(Tail(recs), Insert(Head(recs), acc))

\* mergedRecords.sort((a, b) => a.id - b.id)
SortById(recs) == SortFrom(recs, <<>>)

\* every order in which a result list can hold the same rows
Perms(recs) ==
    LET n == Len(recs)
        P == {f \in [1..n -> 1..n] : \A i, j \in 1..n : f[i] = f[j] => i = j}
    IN {[i \in 1..n |-> recs[f[i]]] : f \in P}

\* search_read on the remote collection with domain [['id', '>', min]]
\* (min = 0 is the empty domain); the rows are listed by ascending id here
\* and handed to the caller in any order.
RECURSIVE SetToSeq(_)
SetToSeq(S) ==
    IF S = {} THEN <<>>
    ELSE LET r == CHOOSE x \in S : \A y \in S : x.id <= y.id
         IN <<r>> \o SetToSeq(S \ {r})

SearchRead(rem, min) == SetToSeq({r \in rem : r.id > min})

\* variant: the message of the server is dropped
CallApiError_Generic(envelopeError) == "API Error"

\* OdooAPI.callApi: the message of the Error raised for a failure
\* envelope {success: false, error}
CallApiError(envelopeError) ==
    IF envelopeError # "" THEN envelopeError ELSE "API Error"

\* failures of a remote call as the engine sees them: the transport fails,
\* or the proxy answers with a failure envelope
RemoteErrors ==
    {"Failed to fetch"} \cup {CallApiError(e) : e \in {""}}

\* resolvePartnerNames: no relation field is configured, so no label is
\* fetched and every record is copied as it is
resolvePartnerNames(recs) == [i \in DOMAIN recs |-> recs[i]]

\* ------------------------------------------------------ durable mirror

EmptyMeta == [lastSyncTime |-> 0, lastRecordId |-> 0, recordCount |-> 0,
              isStale |-> TRUE]

CACHE_DURATION == 5      \* minutes

NoStorage == [data |-> <<>>, meta |-> <<>>]

\* variant: a mirror is stale from the end of the freshness window on
loadFromStorage_Inclusive(st, t) ==
    IF st.data # <<>> /\ st.meta # <<>>
    THEN [records |-> st.data[1],
          meta |-> [st.meta[1] EXCEPT !.isStale =
                        (t - st.meta[1].lastSyncTime >= CACHE_DURATION)]]
    ELSE [records |-> <<>>, meta |-> EmptyMeta]

\* loadFromStorage: a key that is absent is the empty sequence, a key that
\* is present is a sequence of one value
loadFromStorage(st, t) ==
    IF st.data # <<>> /\ st.meta # <<>>
    THEN [records |-> st.data[1],
          meta |-> [st.meta[1] EXCEPT !.isStale =
                        (t - st.meta[1].lastSyncTime > CACHE_DURATION)]]
    ELSE [records |-> <<>>, meta |-> EmptyMeta]

\* the value saveToStorage writes under CACHE_META_KEY
StoredMeta(recs, m, t) ==
    [lastSyncTime |-> IF m.lastSyncTime # 0 THEN m.lastSyncTime ELSE t,
     lastRecordId |-> m.lastRecordId,
     recordCount |-> Len(recs),
     isStale |-> FALSE]

\* variant: only the records are written, the metadata key is left as it was
saveToStorage_RecordsOnly(st, recs, m, t, fail) ==
    CASE fail = 1 -> st
      [] OTHER -> [st EXCEPT !.data = <<recs>>]

\* saveToStorage: two setItem calls in a try block; a setItem that throws
\* ends the function (the exception is logged and swallowed).
\*   fail = 0: both writes succeed, 1: the first throws, 2: the second throws
saveToStorage(st, recs, m, t, fail) ==
    CASE fail = 0 -> [data |-> <<recs>>, meta |-> <<StoredMeta(recs, m, t)>>]
      [] fail = 1 -> st
      [] fail = 2 -> [st EXCEPT !.data = <<recs>>]

SaveResult(fail) ==
    CASE fail = 0 -> "ok" [] fail = 1 -> "first" [] fail = 2 -> "second"

\* clearStorage, lines 83-90: both keys are removed
clearStorage(st) == NoStorage

\* ------------------------------------------------------------ the store

InitialState(cache) ==
    [records |-> cache.records, loading |-> FALSE, syncing |-> FALSE,
     error |-> "", meta |-> cache.meta]

\* variant: the records are taken down while the sync runs
SyncStartUpdate_ClearsRecords(s) ==
    [s EXCEPT !.syncing = TRUE, !.error = "", !.records = <<>>]

\* sync, line 169
SyncStartUpdate(s) == [s EXCEPT !.syncing = TRUE, !.error = ""]

\* variant: the fetched records are appended without the identity filter
MergeRecords_NoFilter(force, snapLast, snapRecords, fetched) ==
    SortById(IF force \/ snapLast = 0 THEN fetched ELSE snapRecords \o fetched)

\* variant: the incremental merge keeps the new records only
MergeRecords_DropsSnapshot(force, snapLast, snapRecords, fetched) ==
    SortById(IF force \/ snapLast = 0
             THEN fetched
             ELSE Filter(fetched,
                         {r \in SeqToSet(fetched) : r.id \notin IdsOf(snapRecords)}))

\* variant: the fetched records are always merged into the cached ones
MergeRecords_AlwaysMerges(force, snapLast, snapRecords, fetched) ==
    SortById(snapRecords \o
             Filter(fetched, {r \in SeqToSet(fetched) : r.id \notin IdsOf(snapRecords)}))

\* sync, lines 201-214: merge or replace, then sort
MergeRecords(force, snapLast, snapRecords, fetched) ==
    LET merged ==
            IF force \/ snapLast = 0
            THEN fetched
            ELSE LET existingIds == IdsOf(snapRecords)
                     newRecords ==
                         Filter(fetched,
                                {r \in SeqToSet(fetched) : r.id \notin existingIds})
                 IN snapRecords \o newRecords
    IN SortById(merged)

\* variant: the watermark is taken from the first record
NewMeta_FirstId(recs, t) ==
    [lastSyncTime |-> t,
     lastRecordId |-> IF Len(recs) > 0 THEN recs[1].id ELSE 0,
     recordCount |-> Len(recs),
     isStale |-> FALSE]

\* sync, lines 219-229
NewMeta(recs, t) ==
    [lastSyncTime |-> t,
     lastRecordId |-> IF Len(recs) > 0 THEN Max(IdsOf(recs)) ELSE 0,
     recordCount |-> Len(recs),
     isStale |-> FALSE]

\* sync, lines 235-241
SyncDoneUpdate(s, recs, m) ==
    [s EXCEPT !.records = recs, !.meta = m, !.syncing = FALSE, !.error = ""]

\* variant: the catch block publishes the error and leaves the flag up
SyncCatchUpdate_StaysSyncing(s, msg) == [s EXCEPT !.error = msg]

\* variant: the catch block publishes a fresh state, dropping the cache
SyncCatchUpdate_DropsCache(s, msg) ==
    [s EXCEPT !.records = <<>>, !.meta = EmptyMeta, !.syncing = FALSE,
              !.error = IF msg # "" THEN msg ELSE "Failed to sync data"]

\* sync, lines 243-250
SyncCatchUpdate(s, msg) ==
    [s EXCEPT !.syncing = FALSE,
              !.error = IF msg # "" THEN msg ELSE "Failed to sync data"]

\* createRecord, lines 310-314
CreateUpdate(s, id, name) ==
    [s EXCEPT !.records = Append(s.records, Rec(id, name))]

\* updateRecord, lines 332-335: { ...r, ...values } with values = {x_name}
UpdateUpdate(s, id, name) ==
    [s EXCEPT !.records =
        [i \in DOMAIN s.records |->
            IF s.records[i].id = id
            THEN [s.records[i] EXCEPT !.x_name = name]
            ELSE s.records[i]]]

\* deleteRecord, lines 353-356
DeleteUpdate(s, id) ==
    [s EXCEPT !.records =
        Filter(s.records, {r \in SeqToSet(s.records) : r.id # id})]

\* initialize, lines 261-266: the mirror is shown
InitializeCachedUpdate(s, currentState) ==
    [s EXCEPT !.records = resolvePartnerNames(currentState.records),
              !.loading = FALSE,
              !.meta = currentState.meta]

\* initialize, lines 274 and 276
LoadingUpdate(s, flag) == [s EXCEPT !.loading = flag]

\* variant: initialize leaves loading as it is once its sync has ended
AfterSync_LoadingStays(kind, s) == s

\* what the caller of sync does to the store when the sync it awaits has
\* ended: initialize (line 276) takes loading back, createRecord,
\* updateRecord and forceRefresh do nothing more
AfterSync(kind, s) ==
    IF kind = "initialize" THEN LoadingUpdate(s, FALSE) ELSE s

\* ---------------------------------------------------------------- tasks

\* A slot of tasks is one call of sync, createRecord, updateRecord,
\* deleteRecord, forceRefresh ("refresh") or initialize; "tick" is the
\* sync() the interval callback calls.
\*   kind   the function called ("none": the slot is free)
\*   pc     "req"      the mutation request is on its way to the remote store
\*          "resp"     the remote store has processed it, the response is
\*                     on its way back
\*          "incrReq", "incrResp"   the same for the incremental fetch
\*          "fullReq", "fullResp"   the same for the full fetch
\*          "done"     the call has settled
\*   force         forceFullRefresh
\*   fallback      the incremental fetch of this sync failed
\*   snapRecords, snapLast   currentState.records, currentState.meta.lastRecordId
\*   resp          the rows of the search response in flight
\*   id, name      the arguments (createRecord: the identity assigned)
\*   sync          how the sync of this call ended: "none", "ok", "failed"
\*   save          how its saveToStorage ended: "none", "ok", "first" (the
\*                 first setItem threw), "second" (the second setItem threw)
\*   ret           how the call settled: "none", "ok", "throw"
NoTask ==
    [kind |-> "none", pc |-> "none", force |-> FALSE, fallback |-> FALSE,
     snapRecords |-> <<>>, snapLast |-> 0, resp |-> <<>>,
     id |-> 0, name |-> "", sync |-> "none", save |-> "none",
     ret |-> "none"]

\* a new call takes the lowest free slot
Free(t) ==
    /\ calls < MaxCalls
    /\ tasks[t].kind = "none"
    /\ \A u \in Tasks : u < t => tasks[u].kind # "none"

\* sync, lines 178-199: after the snapshot, the first request of the sync
FirstFetch(force, snapLast) ==
    IF ~force /\ snapLast > 0 THEN "incrReq" ELSE "fullReq"

\* the task record of a call that has just entered sync(force): the store
\* s is the state the snapshot is taken of
EnterSync(tk, force, s) ==
    [tk EXCEPT !.force = force,
               !.snapRecords = s.records,
               !.snapLast = s.meta.lastRecordId,
               !.pc = FirstFetch(force, s.meta.lastRecordId)]

\* the task record of a settled call: what the call worked on is kept
\* until the caller has received the result
Settled(tk, sync, save, ret) ==
    [tk EXCEPT !.pc = "done", !.sync = sync, !.save = save, !.ret = ret]

InSync(t) ==
    tasks[t].kind \in {"sync", "create", "update", "initialize", "refresh", "tick"}

\* setInterval returns an identity no armed timer carries
FreshTimer ==
    CHOOSE id \in 1..(Cardinality(armed) + 2) : id \notin armed \cup {syncInterval}

\* variant: a new timer is armed and the one before is left running
ArmTimer_KeepsOld ==
    /\ armed' = armed \cup {FreshTimer}
    /\ syncInterval' = FreshTimer

\* initialize, lines 279-286: the timer syncInterval refers to is cleared
\* and a new one is armed
ArmTimer ==
    /\ armed' = (armed \ {syncInterval}) \cup {FreshTimer}
    /\ syncInterval' = FreshTimer

\* what the caller of sync does to the timer when the sync it awaits has
\* ended: initialize goes on to arm the timer
AfterSyncTimer(kind) ==
    IF kind = "initialize" THEN ArmTimer ELSE UNCHANGED <<syncInterval, armed>>

\* ------------------------------------------------------------- adapters

Callers == 1..MaxCallers

\* db.js before any call: dbInstance is null (0)
\*   opens       indexedDB.open requests made
\*   conns       connections the browser has handed out: handles 1..conns
\*   caller      per caller of openDB: "idle", "opening" (its open request
\*               is pending), "open" (resolved with handle), "failed"
\*   batch       the keys of dataArray of the bulkAdd in progress
\*   executed    put requests of the batch the transaction has executed
\*   completed   the counter of bulkAdd
\*   tx          the transaction: "none", "active", "committed", "aborted"
\*   promise     the promise of bulkAdd: "none", "pending", "resolved", "rejected"
\*   store       the keys durably written to the object store
NoDB ==
    [dbInstance |-> 0, opens |-> 0, conns |-> 0,
     caller |-> [c \in Callers |-> [pc |-> "idle", handle |-> 0]],
     batch |-> <<>>, executed |-> 0, completed |-> 0,
     tx |-> "none", promise |-> "none", store |-> {}]

\* odoo.js before any call
\*   op          the operation called ("none": no call in progress)
\*   pc          "idle", "fetch" (awaiting fetch), "json" (the response has
\*               arrived, awaiting response.json()), "done"
\*   sent        requests issued to the proxy by the operation in progress
\*   envelope    the parsed body of the response (a sequence of one)
\*   outcome     "none", "return", "throw"
\*   value       the value returned or the message of the Error thrown
\*   ops         operations called so far
NoClient ==
    [op |-> "none", pc |-> "idle", sent |-> 0, envelope |-> <<>>,
     outcome |-> "none", value |-> <<>>, ops |-> 0]

\* ----------------------------------------------------------------- Init

Init ==
    /\ storage = NoStorage
    /\ now = 1
    /\ state = InitialState(loadFromStorage(NoStorage, 1))
    /\ remote = {}
    /\ nextId = 1
    /\ tasks = [t \in Tasks |-> NoTask]
    /\ calls = 0
    /\ syncInterval = 0
    /\ armed = {}
    /\ mounts = [inits |-> 0, destroys |-> 0]
    /\ partnerMap = <<>>
    /\ idb = NoDB
    /\ client = NoClient

\* -------------------------------------------------------------- actions

\* sync(forceFullRefresh) is called: lines 167-199 up to the first await
SyncCall(t, force) ==
    /\ Free(t)
    /\ state' = SyncStartUpdate(state)
    /\ tasks' = [tasks EXCEPT ![t] =
                    EnterSync([NoTask EXCEPT !.kind = "sync"], force, state')]
    /\ calls' = calls + 1
    /\ UNCHANGED <<storage, remote, nextId, now, lifecycle, adapters>>

\* the remote store answers a search request
RemoteSearch(t) ==
    /\ InSync(t)
    /\ tasks[t].pc \in {"incrReq", "fullReq"}
    /\ tasks' = [tasks EXCEPT ![t] =
            [@ EXCEPT !.pc = IF tasks[t].pc = "incrReq" THEN "incrResp" ELSE "fullResp",
                      !.resp = SearchRead(remote,
                                   IF tasks[t].pc = "incrReq" THEN tasks[t].snapLast ELSE 0)]]
    /\ UNCHANGED <<state, storage, remote, nextId, now, calls, lifecycle, adapters>>

\* variant: saveToStorage lets the exception of setItem through, so that a
\* failed write ends in the catch block of sync
SyncFinish_SaveThrows(t, fetched, fail) ==
    LET tk == tasks[t]
        mergedRecords == MergeRecords(tk.force, tk.snapLast, tk.snapRecords, fetched)
        recordsWithNames == resolvePartnerNames(mergedRecords)
        newMeta == NewMeta(recordsWithNames, now)
    IN /\ storage' = saveToStorage(storage, recordsWithNames, newMeta, now, fail)
       /\ state' = AfterSync(tk.kind,
                       IF fail = 0
                       THEN SyncDoneUpdate(state, recordsWithNames, newMeta)
                       ELSE SyncCatchUpdate(state, "QuotaExceededError"))
       /\ tasks' = [tasks EXCEPT ![t] =
                       Settled(tk, IF fail = 0 THEN "ok" ELSE "failed",
                               SaveResult(fail), "ok")]
       /\ AfterSyncTimer(tk.kind)
       /\ UNCHANGED <<remote, nextId, now, calls, mounts, partnerMap, adapters>>

\* sync, lines 201-241: the fetch has succeeded with the rows fetched; the
\* caller that awaits the sync goes on in the same run
SyncFinish(t, fetched, fail) ==
    LET tk == tasks[t]
        mergedRecords == MergeRecords(tk.force, tk.snapLast, tk.snapRecords, fetched)
        recordsWithNames == resolvePartnerNames(mergedRecords)
        newMeta == NewMeta(recordsWithNames, now)
    IN /\ storage' = saveToStorage(storage, recordsWithNames, newMeta, now, fail)
       /\ state' = AfterSync(tk.kind,
                              SyncDoneUpdate(state, recordsWithNames, newMeta))
       /\ tasks' = [tasks EXCEPT ![t] = Settled(tk, "ok", SaveResult(fail), "ok")]
       /\ AfterSyncTimer(tk.kind)
       /\ UNCHANGED <<remote, nextId, now, calls, mounts, partnerMap, adapters>>

\* the response of the incremental fetch is delivered
SyncIncrOk(t) ==
    /\ InSync(t)
    /\ tasks[t].pc = "incrResp"
    /\ \E fetched \in Perms(tasks[t].resp), fail \in 0..2 :
          SyncFinish(t, fetched, fail)

\* variant: the fallback fetches everything but forceFullRefresh is not set
SyncIncrFail_KeepsMode(t) ==
    /\ InSync(t)
    /\ tasks[t].pc \in {"incrReq", "incrResp"}
    /\ tasks' = [tasks EXCEPT ![t] =
            [@ EXCEPT !.fallback = TRUE, !.resp = <<>>, !.pc = "fullReq"]]
    /\ UNCHANGED <<state, storage, remote, nextId, now, calls, lifecycle, adapters>>

\* the incremental fetch fails: lines 190-199, the full fetch is issued
SyncIncrFail(t) ==
    /\ InSync(t)
    /\ tasks[t].pc \in {"incrReq", "incrResp"}
    /\ tasks' = [tasks EXCEPT ![t] =
            [@ EXCEPT !.force = TRUE, !.fallback = TRUE, !.resp = <<>>,
                      !.pc = "fullReq"]]
    /\ UNCHANGED <<state, storage, remote, nextId, now, calls, lifecycle, adapters>>

\* the response of the full fetch is delivered
SyncFullOk(t) ==
    /\ InSync(t)
    /\ tasks[t].pc = "fullResp"
    /\ \E fetched \in Perms(tasks[t].resp), fail \in 0..2 :
          SyncFinish(t, fetched, fail)

\* the full fetch fails: lines 243-250; the caller that awaits the sync
\* goes on in the same run
SyncFullFail(t) ==
    /\ InSync(t)
    /\ tasks[t].pc \in {"fullReq", "fullResp"}
    /\ \E msg \in RemoteErrors :
          state' = AfterSync(tasks[t].kind, SyncCatchUpdate(state, msg))
    /\ tasks' = [tasks EXCEPT ![t] = Settled(tasks[t], "failed", "none", "ok")]
    /\ AfterSyncTimer(tasks[t].kind)
    /\ UNCHANGED <<storage, remote, nextId, now, calls, mounts, partnerMap, adapters>>

\* createRecord(fields) is called with fields = {x_name: name}: the create
\* request is sent
CreateCall(t, name) ==
    /\ Free(t)
    /\ tasks' = [tasks EXCEPT ![t] =
                    [NoTask EXCEPT !.kind = "create", !.pc = "req", !.name = name]]
    /\ calls' = calls + 1
    /\ UNCHANGED <<state, storage, remote, nextId, now, lifecycle, adapters>>

\* the remote store creates the record and assigns its identity
RemoteCreate(t) ==
    /\ tasks[t].kind = "create"
    /\ tasks[t].pc = "req"
    /\ nextId <= MaxId
    /\ remote' = remote \cup {Rec(nextId, tasks[t].name)}
    /\ nextId' = nextId + 1
    /\ tasks' = [tasks EXCEPT ![t] = [@ EXCEPT !.pc = "resp", !.id = nextId]]
    /\ UNCHANGED <<state, storage, now, calls, lifecycle, adapters>>

\* createRecord, lines 307-317: the identity arrives, the optimistic record
\* is appended and sync() runs up to its first await
CreateOk(t) ==
    /\ tasks[t].kind = "create"
    /\ tasks[t].pc = "resp"
    /\ state' = SyncStartUpdate(CreateUpdate(state, tasks[t].id, tasks[t].name))
    /\ tasks' = [tasks EXCEPT ![t] = EnterSync(tasks[t], FALSE, state')]
    /\ UNCHANGED <<storage, remote, nextId, now, calls, lifecycle, adapters>>

\* variant: the optimistic record is appended before the remote call
CreateFail_Optimistic(t) ==
    /\ tasks[t].kind = "create"
    /\ tasks[t].pc \in {"req", "resp"}
    /\ state' = CreateUpdate(state, nextId, tasks[t].name)
    /\ tasks' = [tasks EXCEPT ![t] = Settled(tasks[t], "none", "none", "throw")]
    /\ UNCHANGED <<storage, remote, nextId, now, calls, lifecycle, adapters>>

\* createRecord, lines 320-323: the remote create fails (before or after
\* the remote store has processed it) and the error is thrown again
CreateFail(t) ==
    /\ tasks[t].kind = "create"
    /\ tasks[t].pc \in {"req", "resp"}
    /\ tasks' = [tasks EXCEPT ![t] = Settled(tasks[t], "none", "none", "throw")]
    /\ UNCHANGED <<state, storage, remote, nextId, now, calls, lifecycle, adapters>>

\* updateRecord(id, values) is called with values = {x_name: name} for a
\* record the consumer sees in the published set
UpdateCall(t, id, name) ==
    /\ Free(t)
    /\ id \in IdsOf(state.records)
    /\ tasks' = [tasks EXCEPT ![t] =
                    [NoTask EXCEPT !.kind = "update", !.pc = "req",
                                   !.id = id, !.name = name]]
    /\ calls' = calls + 1
    /\ UNCHANGED <<state, storage, remote, nextId, now, lifecycle, adapters>>

\* the remote store writes the values to the record (a write to a record
\* that does not exist is an error there)
RemoteUpdate(t) ==
    /\ tasks[t].kind = "update"
    /\ tasks[t].pc = "req"
    /\ tasks[t].id \in {r.id : r \in remote}
    /\ remote' = {IF r.id = tasks[t].id THEN Rec(r.id, tasks[t].name) ELSE r : r \in remote}
    /\ tasks' = [tasks EXCEPT ![t] = [@ EXCEPT !.pc = "resp"]]
    /\ UNCHANGED <<state, storage, nextId, now, calls, lifecycle, adapters>>

\* updateRecord, lines 329-338: the update is confirmed, the cached record
\* is patched and sync() runs up to its first await
UpdateOk(t) ==
    /\ tasks[t].kind = "update"
    /\ tasks[t].pc = "resp"
    /\ state' = SyncStartUpdate(UpdateUpdate(state, tasks[t].id, tasks[t].name))
    /\ tasks' = [tasks EXCEPT ![t] = EnterSync(tasks[t], FALSE, state')]
    /\ UNCHANGED <<storage, remote, nextId, now, calls, lifecycle, adapters>>

\* variant: the patch is applied before the remote call and not taken back
UpdateFail_Patched(t) ==
    /\ tasks[t].kind = "update"
    /\ tasks[t].pc \in {"req", "resp"}
    /\ state' = UpdateUpdate(state, tasks[t].id, tasks[t].name)
    /\ tasks' = [tasks EXCEPT ![t] = Settled(tasks[t], "none", "none", "throw")]
    /\ UNCHANGED <<storage, remote, nextId, now, calls, lifecycle, adapters>>

\* updateRecord, lines 341-344: the remote update fails
UpdateFail(t) ==
    /\ tasks[t].kind = "update"
    /\ tasks[t].pc \in {"req", "resp"}
    /\ tasks' = [tasks EXCEPT ![t] = Settled(tasks[t], "none", "none", "throw")]
    /\ UNCHANGED <<state, storage, remote, nextId, now, calls, lifecycle, adapters>>

\* deleteRecord(id) is called for a record the consumer sees in the
\* published set (the list page's delete button)
DeleteCall(t, id) ==
    /\ Free(t)
    /\ id \in IdsOf(state.records)
    /\ tasks' = [tasks EXCEPT ![t] =
                    [NoTask EXCEPT !.kind = "delete", !.pc = "req", !.id = id]]
    /\ calls' = calls + 1
    /\ UNCHANGED <<state, storage, remote, nextId, now, lifecycle, adapters>>

\* the remote store unlinks the record
RemoteDelete(t) ==
    /\ tasks[t].kind = "delete"
    /\ tasks[t].pc = "req"
    /\ remote' = {r \in remote : r.id # tasks[t].id}
    /\ tasks' = [tasks EXCEPT ![t] = [@ EXCEPT !.pc = "resp"]]
    /\ UNCHANGED <<state, storage, nextId, now, calls, lifecycle, adapters>>

\* deleteRecord, lines 350-358: the delete is confirmed and the record is
\* removed from the published set
DeleteOk(t) ==
    /\ tasks[t].kind = "delete"
    /\ tasks[t].pc = "resp"
    /\ state' = DeleteUpdate(state, tasks[t].id)
    /\ tasks' = [tasks EXCEPT ![t] = Settled(tasks[t], "none", "none", "ok")]
    /\ UNCHANGED <<storage, remote, nextId, now, calls, lifecycle, adapters>>

\* variant: the record is removed before the remote call and not put back
DeleteFail_Optimistic(t) ==
    /\ tasks[t].kind = "delete"
    /\ tasks[t].pc \in {"req", "resp"}
    /\ state' = DeleteUpdate(state, tasks[t].id)
    /\ tasks' = [tasks EXCEPT ![t] = Settled(tasks[t], "none", "none", "throw")]
    /\ UNCHANGED <<storage, remote, nextId, now, calls, lifecycle, adapters>>

\* deleteRecord, lines 359-362: the remote delete fails
DeleteFail(t) ==
    /\ tasks[t].kind = "delete"
    /\ tasks[t].pc \in {"req", "resp"}
    /\ tasks' = [tasks EXCEPT ![t] = Settled(tasks[t], "none", "none", "throw")]
    /\ UNCHANGED <<state, storage, remote, nextId, now, calls, lifecycle, adapters>>

\* the caller has received the result of a settled call
Return(t) ==
    /\ tasks[t].pc = "done"
    /\ tasks' = [tasks EXCEPT ![t] = NoTask]
    /\ UNCHANGED <<state, storage, remote, nextId, now, calls, lifecycle, adapters>>

Next ==
    \/ \E t \in Tasks, force \in BOOLEAN : SyncCall(t, force)
    \/ \E t \in Tasks : RemoteSearch(t)
    \/ \E t \in Tasks : SyncIncrOk(t)
    \/ \E t \in Tasks : SyncIncrFail(t)
    \/ \E t \in Tasks : SyncFullOk(t)
    \/ \E t \in Tasks : SyncFullFail(t)
    \/ \E t \in Tasks, name \in CreateNames : CreateCall(t, name)
    \/ \E t \in Tasks : RemoteCreate(t)
    \/ \E t \in Tasks : CreateOk(t)
    \/ \E t \in Tasks : CreateFail(t)
    \/ \E t \in Tasks, id \in Ids, name \in UpdateNames : UpdateCall(t, id, name)
    \/ \E t \in Tasks : RemoteUpdate(t)
    \/ \E t \in Tasks : UpdateOk(t)
    \/ \E t \in Tasks : UpdateFail(t)
    \/ \E t \in Tasks, id \in Ids : DeleteCall(t, id)
    \/ \E t \in Tasks : RemoteDelete(t)
    \/ \E t \in Tasks : DeleteOk(t)
    \/ \E t \in Tasks : DeleteFail(t)
    \/ \E t \in Tasks : Return(t)

Spec == Init /\ [][Next]_vars

\* ------------------------------------------------- the engine life cycle

\* identities the remote store handed out before the session
SessionIds == 1..(MaxId - 1)

\* record sets of the remote collection: at most one record per identity
RecordSets(names) ==
    {S \in SUBSET {Rec(i, n) : i \in SessionIds, n \in names} :
        \A r, q \in S : r.id = q.id => r = q}

\* minutes since the mirror was written: inside the freshness window, at
\* its end and past it
MirrorAges == {CACHE_DURATION - 1, CACHE_DURATION, CACHE_DURATION + 1}

\* the mirrors an earlier session can have left: none, or the one its last
\* sync wrote at minute 1 for the records it published
SessionMirrors ==
    {NoStorage} \cup
    {saveToStorage(NoStorage, SetToSeq(S), NewMeta(SetToSeq(S), 1), 1, 0) :
        S \in RecordSets(CreateNames)}

\* the page is loaded: createCacheStore, lines 93-107, on the mirror of an
\* earlier session; the remote collection has moved on since
InitSession ==
    /\ storage \in SessionMirrors
    /\ now \in {1 + age : age \in MirrorAges}
    /\ state = InitialState(loadFromStorage(storage, now))
    /\ remote \in RecordSets(Names)
    /\ nextId = MaxId
    /\ tasks = [t \in Tasks |-> NoTask]
    /\ calls = 0
    /\ syncInterval = 0
    /\ armed = {}
    /\ mounts = [inits |-> 0, destroys |-> 0]
    /\ partnerMap = <<>>
    /\ idb = NoDB
    /\ client = NoClient

\* a new call of the session takes the lowest free slot
SessionFree(t) == Free(t) /\ calls < MaxSessionCalls

\* initialize() is called and the mirror holds no record: lines 254-258
\* and 272-275, up to the first await inside sync(true)
InitializeEmpty(t) ==
    /\ SessionFree(t)
    /\ loadFromStorage(storage, now).records = <<>>
    /\ state' = SyncStartUpdate(LoadingUpdate(state, TRUE))
    /\ tasks' = [tasks EXCEPT ![t] =
                    EnterSync([NoTask EXCEPT !.kind = "initialize"], TRUE, state')]
    /\ mounts' = [mounts EXCEPT !.inits = @ + 1]
    /\ calls' = calls + 1
    /\ UNCHANGED <<storage, remote, nextId, now, syncInterval, armed, partnerMap, adapters>>

\* variant: the background sync is started whether the mirror is stale or
\* not
InitializeCached_AlwaysSyncs(t) ==
    LET currentState == loadFromStorage(storage, now)
        shown == InitializeCachedUpdate(state, currentState)
    IN /\ SessionFree(t)
       /\ currentState.records # <<>>
       /\ state' = SyncStartUpdate(shown)
       /\ tasks' = [tasks EXCEPT ![t] =
                       EnterSync([NoTask EXCEPT !.kind = "sync"], FALSE, state')]
       /\ ArmTimer
       /\ mounts' = [mounts EXCEPT !.inits = @ + 1]
       /\ calls' = calls + 1
       /\ UNCHANGED <<storage, remote, nextId, now, partnerMap, adapters>>

\* initialize() is called and the mirror holds records: lines 254-271 and
\* 278-286.  The mirror is shown, sync() is called without await when the
\* mirror is stale (it runs up to its first await), the timer is armed and
\* initialize returns.  resolvePartnerNames makes no remote call, so
\* nothing of the engine runs between the load and the end of initialize.
InitializeCached(t) ==
    LET currentState == loadFromStorage(storage, now)
        shown == InitializeCachedUpdate(state, currentState)
    IN /\ SessionFree(t)
       /\ currentState.records # <<>>
       /\ IF currentState.meta.isStale
          THEN /\ state' = SyncStartUpdate(shown)
               /\ tasks' = [tasks EXCEPT ![t] =
                               EnterSync([NoTask EXCEPT !.kind = "sync"], FALSE, state')]
          ELSE /\ state' = shown
               /\ UNCHANGED tasks
       /\ ArmTimer
       /\ mounts' = [mounts EXCEPT !.inits = @ + 1]
       /\ calls' = calls + 1
       /\ UNCHANGED <<storage, remote, nextId, now, partnerMap, adapters>>

\* destroy(), lines 290-295; the page calls it once for each initialize
Destroy ==
    /\ mounts.destroys < mounts.inits
    /\ IF syncInterval # 0
       THEN /\ armed' = armed \ {syncInterval}
            /\ syncInterval' = 0
       ELSE UNCHANGED <<syncInterval, armed>>
    /\ mounts' = [mounts EXCEPT !.destroys = @ + 1]
    /\ UNCHANGED <<state, storage, remote, nextId, now, tasks, calls, partnerMap, adapters>>

\* an armed timer fires: the interval callback calls sync(), lines 284-286
TimerFire(t) ==
    /\ armed # {}
    /\ SessionFree(t)
    /\ state' = SyncStartUpdate(state)
    /\ tasks' = [tasks EXCEPT ![t] =
                    EnterSync([NoTask EXCEPT !.kind = "tick"], FALSE, state')]
    /\ calls' = calls + 1
    /\ UNCHANGED <<storage, remote, nextId, now, lifecycle, adapters>>

\* variant: forceRefresh runs sync() without forceFullRefresh
ForceRefreshCall_Incremental(t) ==
    /\ SessionFree(t)
    /\ storage' = clearStorage(storage)
    /\ partnerMap' = <<>>
    /\ state' = SyncStartUpdate(state)
    /\ tasks' = [tasks EXCEPT ![t] =
                    EnterSync([NoTask EXCEPT !.kind = "refresh"], FALSE, state')]
    /\ calls' = calls + 1
    /\ UNCHANGED <<remote, nextId, now, syncInterval, armed, mounts, adapters>>

\* forceRefresh() is called: lines 298-301, up to the first await inside
\* sync(true)
ForceRefreshCall(t) ==
    /\ SessionFree(t)
    /\ storage' = clearStorage(storage)
    /\ partnerMap' = <<>>
    /\ state' = SyncStartUpdate(state)
    /\ tasks' = [tasks EXCEPT ![t] =
                    EnterSync([NoTask EXCEPT !.kind = "refresh"], TRUE, state')]
    /\ calls' = calls + 1
    /\ UNCHANGED <<remote, nextId, now, syncInterval, armed, mounts, adapters>>

\* sync(forceFullRefresh) is called by the consumer during the session
SessionSyncCall(t, force) == SessionFree(t) /\ SyncCall(t, force)

NextSession ==
    \/ \E t \in Tasks : InitializeEmpty(t)
    \/ \E t \in Tasks : InitializeCached(t)
    \/ Destroy
    \/ \E t \in Tasks : TimerFire(t)
    \/ \E t \in Tasks : ForceRefreshCall(t)
    \/ \E t \in Tasks, force \in BOOLEAN : SessionSyncCall(t, force)
    \/ \E t \in Tasks : RemoteSearch(t)
    \/ \E t \in Tasks : SyncIncrOk(t)
    \/ \E t \in Tasks : SyncIncrFail(t)
    \/ \E t \in Tasks : SyncFullOk(t)
    \/ \E t \in Tasks : SyncFullFail(t)
    \/ \E t \in Tasks : Return(t)

SpecSession == InitSession /\ [][NextSession]_vars

\* ------------------------------------------------------------------ db.js

\* the cache engine at rest: what the adapters leave alone
engine == <<state, storage, remote, nextId, now, tasks, calls, lifecycle>>

\* openDB(), lines 28-36: the memoized handle is returned, or an open
\* request is made
OpenDBCall(c) ==
    /\ idb.caller[c].pc = "idle"
    /\ idb' = IF idb.dbInstance # 0
              THEN [idb EXCEPT !.caller[c] = [pc |-> "open", handle |-> idb.dbInstance]]
              ELSE [idb EXCEPT !.opens = @ + 1, !.caller[c].pc = "opening"]
    /\ UNCHANGED <<engine, client>>

\* request.onsuccess, lines 42-45: the browser hands out a new connection
\* for this request; it is stored in dbInstance and given to the caller
OpenSuccess(c) ==
    /\ idb.caller[c].pc = "opening"
    /\ idb' = [idb EXCEPT !.conns = @ + 1,
                          !.dbInstance = idb.conns + 1,
                          !.caller[c] = [pc |-> "open", handle |-> idb.conns + 1]]
    /\ UNCHANGED <<engine, client>>

\* request.onerror, lines 38-40
OpenError(c) ==
    /\ idb.caller[c].pc = "opening"
    /\ idb' = [idb EXCEPT !.caller[c].pc = "failed"]
    /\ UNCHANGED <<engine, client>>

\* bulkAdd(storeName, dataArray) on an open database, lines 167-180: the
\* transaction is created; an empty batch resolves at once
BulkAddCall(n) ==
    /\ idb.dbInstance # 0
    /\ idb.promise = "none"
    /\ idb' = [idb EXCEPT !.batch = [i \in 1..n |-> i],
                          !.executed = 0,
                          !.completed = 0,
                          !.tx = "active",
                          !.promise = IF n = 0 THEN "resolved" ELSE "pending"]
    /\ UNCHANGED <<engine, client>>

\* request.onsuccess of the next put, lines 184-189
PutSuccess ==
    /\ idb.tx = "active"
    /\ idb.executed < Len(idb.batch)
    /\ idb' = [idb EXCEPT !.executed = @ + 1,
                          !.completed = @ + 1,
                          !.promise = IF idb.completed + 1 = Len(idb.batch)
                                      THEN "resolved" ELSE @]
    /\ UNCHANGED <<engine, client>>

\* request.onerror of the next put, lines 190-192; the error is not
\* handled, so the transaction aborts
PutError ==
    /\ idb.tx = "active"
    /\ idb.executed < Len(idb.batch)
    /\ idb' = [idb EXCEPT !.executed = @ + 1,
                          !.tx = "aborted",
                          !.promise = IF @ = "pending" THEN "rejected" ELSE @]
    /\ UNCHANGED <<engine, client>>

\* every request has been executed and the transaction commits: only now
\* are the records of the batch durable
TxComplete ==
    /\ idb.tx = "active"
    /\ idb.executed = Len(idb.batch)
    /\ idb' = [idb EXCEPT !.tx = "committed",
                          !.store = @ \cup SeqToSet(idb.batch)]
    /\ UNCHANGED <<engine, client>>

\* the commit fails (quota, disk error): nothing of the batch is written.
\* bulkAdd listens to no transaction event.
TxAbort ==
    /\ idb.tx = "active"
    /\ idb.executed = Len(idb.batch)
    /\ idb' = [idb EXCEPT !.tx = "aborted"]
    /\ UNCHANGED <<engine, client>>

\* the caller of bulkAdd has its result and the transaction is over
BulkReturn ==
    /\ idb.promise \in {"resolved", "rejected"}
    /\ idb.tx \in {"committed", "aborted"}
    /\ idb' = [idb EXCEPT !.batch = <<>>, !.executed = 0, !.completed = 0,
                          !.tx = "none", !.promise = "none"]
    /\ UNCHANGED <<engine, client>>

InitDB ==
    /\ Init

NextDB ==
    \/ \E c \in Callers : OpenDBCall(c)
    \/ \E c \in Callers : OpenSuccess(c)
    \/ \E c \in Callers : OpenError(c)
    \/ \E n \in 0..MaxBatch : BulkAddCall(n)
    \/ PutSuccess
    \/ PutError
    \/ TxComplete
    \/ TxAbort
    \/ BulkReturn

SpecDB == InitDB /\ [][NextDB]_vars

\* ------------------------------------------------------ responding remote

\* a step of the sync in slot t: the remote store answers its request, or
\* the answer (a result or a failure) is delivered to it
SyncResponse(t) ==
    \/ RemoteSearch(t)
    \/ SyncIncrOk(t)
    \/ SyncIncrFail(t)
    \/ SyncFullOk(t)
    \/ SyncFullFail(t)

\* the remote calls of every sync are answered in the end
RemoteResponds == \A t \in Tasks : WF_vars(SyncResponse(t))

\* the page after an earlier sync of the session has succeeded at minute
\* 1: its records are published and mirrored; the remote collection has
\* moved on since
InitResponding ==
    /\ now = 1
    /\ \E S \in RecordSets(CreateNames) :
          LET recs == SetToSeq(S)
              m == NewMeta(recs, now)
          IN /\ state = SyncDoneUpdate(InitialState(loadFromStorage(NoStorage, now)),
                                       recs, m)
             /\ storage = saveToStorage(NoStorage, recs, m, now, 0)
    /\ remote \in RecordSets(Names)
    /\ nextId = MaxId
    /\ tasks = [t \in Tasks |-> NoTask]
    /\ calls = 0
    /\ syncInterval = 0
    /\ armed = {}
    /\ mounts = [inits |-> 0, destroys |-> 0]
    /\ partnerMap = <<>>
    /\ idb = NoDB
    /\ client = NoClient

NextResponding ==
    \/ \E t \in Tasks, force \in BOOLEAN : SessionSyncCall(t, force)
    \/ \E t \in Tasks : RemoteSearch(t)
    \/ \E t \in Tasks : SyncIncrOk(t)
    \/ \E t \in Tasks : SyncIncrFail(t)
    \/ \E t \in Tasks : SyncFullOk(t)
    \/ \E t \in Tasks : SyncFullFail(t)
    \/ \E t \in Tasks : Return(t)

SpecResponding == InitResponding /\ [][NextResponding]_vars /\ RemoteResponds

\* ------------------------------------------------------ updates of a page

\* the page after a successful sync, and the consumer updates the records
\* it sees
NextUpdates ==
    \/ \E t \in Tasks, id \in Ids, name \in UpdateNames : UpdateCall(t, id, name)
    \/ \E t \in Tasks : RemoteUpdate(t)
    \/ \E t \in Tasks : UpdateOk(t)
    \/ \E t \in Tasks : UpdateFail(t)
    \/ \E t \in Tasks : RemoteSearch(t)
    \/ \E t \in Tasks : SyncIncrOk(t)
    \/ \E t \in Tasks : SyncIncrFail(t)
    \/ \E t \in Tasks : SyncFullOk(t)
    \/ \E t \in Tasks : SyncFullFail(t)
    \/ \E t \in Tasks : Return(t)

SpecUpdates == InitResponding /\ [][NextUpdates]_vars

\* ------------------------------------------------- deletes and re-mounts

\* the list page after a successful sync: the consumer deletes records it
\* sees, and the page is mounted again (initialize, destroy)
NextRemount ==
    \/ \E t \in Tasks, id \in Ids : DeleteCall(t, id)
    \/ \E t \in Tasks : RemoteDelete(t)
    \/ \E t \in Tasks : DeleteOk(t)
    \/ \E t \in Tasks : DeleteFail(t)
    \/ \E t \in Tasks : InitializeEmpty(t)
    \/ \E t \in Tasks : InitializeCached(t)
    \/ Destroy
    \/ \E t \in Tasks, force \in BOOLEAN : SessionSyncCall(t, force)
    \/ \E t \in Tasks : RemoteSearch(t)
    \/ \E t \in Tasks : SyncIncrOk(t)
    \/ \E t \in Tasks : SyncIncrFail(t)
    \/ \E t \in Tasks : SyncFullOk(t)
    \/ \E t \in Tasks : SyncFullFail(t)
    \/ \E t \in Tasks : Return(t)

SpecRemount == InitResponding /\ [][NextRemount]_vars

\* -------------------------------------------------------------- the clock

\* a minute passes: Date.now() moves on, no code of the store runs
Tick ==
    /\ now < MaxNow
    /\ now' = now + 1
    /\ UNCHANGED <<state, storage, remote, nextId, tasks, calls, lifecycle, adapters>>

NextClock ==
    \/ NextResponding
    \/ Tick

SpecClock == InitResponding /\ [][NextClock]_vars

\* ---------------------------------------------------------------- odoo.js

ClientOps ==
    {"createRecord", "searchRecords", "searchModel", "updateRecord", "deleteRecord"}

\* the body the proxy answers with; a field the proxy does not set is 0,
\* <<>> or FALSE here
Envelope(success, error, id, results, result) ==
    [success |-> success, error |-> error, id |-> id,
     results |-> results, result |-> result]

\* +server.js POST: what the proxy can answer to the request of op
Envelopes(op) ==
    {Envelope(FALSE, e, 0, <<>>, FALSE) : e \in {"", "Access Denied"}}
    \cup
    CASE op = "createRecord" ->
            {Envelope(TRUE, "", i, <<>>, FALSE) : i \in Ids}
      [] op \in {"searchRecords", "searchModel"} ->
            {Envelope(TRUE, "", 0, rows, FALSE) :
                rows \in {<<>>, <<Rec(1, "a")>>}}
      [] op \in {"updateRecord", "deleteRecord"} ->
            {Envelope(TRUE, "", 0, <<>>, TRUE)}

\* what each operation returns of the envelope callApi hands it
Unwrap(op, result) ==
    CASE op = "createRecord" -> result.id
      [] op \in {"searchRecords", "searchModel"} -> result.results
      [] op \in {"updateRecord", "deleteRecord"} -> result.result

\* an operation of the client is called: callApi issues the fetch
ClientCall(op) ==
    /\ client.pc = "idle"
    /\ client.ops < MaxRequests
    /\ client' = [NoClient EXCEPT !.op = op, !.pc = "fetch", !.sent = 1,
                                  !.ops = client.ops + 1]
    /\ UNCHANGED <<engine, idb>>

\* the response of the proxy arrives
ProxyResponds(env) ==
    /\ client.pc = "fetch"
    /\ env \in Envelopes(client.op)
    /\ client' = [client EXCEPT !.pc = "json", !.envelope = <<env>>]
    /\ UNCHANGED <<engine, idb>>

\* fetch rejects: the operation rejects with the same error
FetchFails ==
    /\ client.pc = "fetch"
    /\ client' = [client EXCEPT !.pc = "done", !.outcome = "throw",
                                !.value = "Failed to fetch"]
    /\ UNCHANGED <<engine, idb>>

\* callApi lines 44-50 and the return of the operation
ClientSettle ==
    /\ client.pc = "json"
    /\ LET result == client.envelope[1]
       IN client' =
            IF ~result.success
            THEN [client EXCEPT !.pc = "done", !.outcome = "throw",
                                !.value = CallApiError(result.error)]
            ELSE [client EXCEPT !.pc = "done", !.outcome = "return",
                                !.value = Unwrap(client.op, result)]
    /\ UNCHANGED <<engine, idb>>

\* the caller has the result
ClientReturn ==
    /\ client.pc = "done"
    /\ client' = [NoClient EXCEPT !.ops = client.ops]
    /\ UNCHANGED <<engine, idb>>

InitClient ==
    /\ Init

NextClient ==
    \/ \E op \in ClientOps : ClientCall(op)
    \/ \E op \in ClientOps : \E env \in Envelopes(op) : ProxyResponds(env)
    \/ FetchFails
    \/ ClientSettle
    \/ ClientReturn

SpecClient == InitClient /\ [][NextClient]_vars

\* ----------------------------------------------------------- properties

\* the step in which the call in slot t settles
Settles(t) == tasks[t].pc # "done" /\ tasks'[t].pc = "done"

\* the records of recs that carry identity id, in their order
WithId(recs, id) == Filter(recs, {r \in SeqToSet(recs) : r.id = id})

\* C1: a sync whose remote fetch fails unrecoverably (the full fetch fails,
\* directly or as the fallback of a failed incremental fetch) leaves the
\* published records and metadata as they were just before the failure,
\* publishes syncing = false and a non-empty error.
C1_FetchFailureKeepsCache ==
    [][\A t \in Tasks :
          (Settles(t) /\ tasks'[t].sync = "failed") =>
              /\ state'.records = state.records
              /\ state'.meta = state.meta
              /\ state'.syncing = FALSE
              /\ state'.error # ""]_vars

\* a sync has just failed, after its fallback, over a non-empty cache
C1_Witness ==
    \E t \in Tasks :
        /\ tasks[t].pc = "done"
        /\ tasks[t].sync = "failed"
        /\ tasks[t].fallback
        /\ state.records # <<>>
        /\ state.meta.lastRecordId > 0
        /\ ~state.syncing
        /\ state.error # ""

C3_CreateFailureChangesNothing ==
    [][\A t \in Tasks :
          (tasks[t].kind = "create" /\ Settles(t) /\ tasks'[t].ret = "throw") =>
              /\ state' = state
              /\ tasks[t].pc \in {"req", "resp"}
              /\ tasks'[t].sync = "none"]_vars

\* a createRecord has thrown although the remote store had created the
\* record: the published set does not hold it
C3_Witness ==
    \E t \in Tasks :
        /\ tasks[t].kind = "create"
        /\ tasks[t].pc = "done"
        /\ tasks[t].ret = "throw"
        /\ tasks[t].id \in {r.id : r \in remote}
        /\ tasks[t].id \notin IdsOf(state.records)
        /\ state.records # <<>>

\* C4: when the remote delete of identity X fails, deleteRecord throws and
\* the published records are as before: X is still there.
C4_DeleteFailureKeepsRecord ==
    [][\A t \in Tasks :
          (tasks[t].kind = "delete" /\ Settles(t) /\ tasks'[t].ret = "throw") =>
              /\ state'.records = state.records
              /\ (tasks[t].id \in IdsOf(state.records)
                    => tasks[t].id \in IdsOf(state'.records))]_vars

\* a deleteRecord has thrown and its record is published
C4_Witness ==
    \E t \in Tasks :
        /\ tasks[t].kind = "delete"
        /\ tasks[t].pc = "done"
        /\ tasks[t].ret = "throw"
        /\ tasks[t].id \in IdsOf(state.records)

NewIn(fetched, recs) == {r \in SeqToSet(fetched) : r.id \notin IdsOf(recs)}

\* C6: a successful incremental sync during which nothing else has changed
\* the published set publishes the pre-sync set plus exactly the fetched
\* records whose identity was not cached; for a cached identity the cached
\* record is kept and the fetched one is discarded.
C6_IncrementalMerge ==
    [][\A t \in Tasks :
          (/\ InSync(t)
           /\ tasks[t].pc = "incrResp"
           /\ Settles(t)
           /\ tasks'[t].sync = "ok"
           /\ state.records = tasks[t].snapRecords
           /\ state.meta.lastRecordId = tasks[t].snapLast) =>
              /\ ~tasks[t].force /\ tasks[t].snapLast > 0
              /\ SeqToSet(state'.records) =
                    SeqToSet(state.records) \cup NewIn(tasks[t].resp, state.records)
              /\ Len(state'.records) =
                    Len(state.records)
                    + Cardinality(NewIn(tasks[t].resp, state.records))
              /\ \A id \in IdsOf(state.records) :
                    WithId(state'.records, id) = WithId(state.records, id)]_vars

\* an incremental sync has just published a set for which it fetched both a
\* record that was cached (discarded) and one that was not (added)
C6_Witness ==
    \E t \in Tasks :
        /\ InSync(t)
        /\ tasks[t].pc = "done"
        /\ tasks[t].sync = "ok"
        /\ ~tasks[t].force
        /\ tasks[t].snapLast > 0
        /\ \E r \in SeqToSet(tasks[t].resp) : r.id \in IdsOf(tasks[t].snapRecords)
        /\ NewIn(tasks[t].resp, tasks[t].snapRecords) # {}
        /\ Len(state.records) =
              Len(tasks[t].snapRecords)
              + Cardinality(NewIn(tasks[t].resp, tasks[t].snapRecords))

\* C7: a successful sync with forceFullRefresh = true, or with watermark 0,
\* publishes exactly the rows of the unfiltered fetch: a cached record the
\* remote store does not return is gone.
C7_FullSyncReplaces ==
    [][\A t \in Tasks :
          (/\ InSync(t)
           /\ Settles(t)
           /\ tasks'[t].sync = "ok"
           /\ ~tasks[t].fallback
           /\ (tasks[t].force \/ tasks[t].snapLast = 0)) =>
              /\ tasks[t].pc = "fullResp"
              /\ SeqToSet(state'.records) = SeqToSet(tasks[t].resp)
              /\ Len(state'.records) = Len(tasks[t].resp)
              /\ \A r \in SeqToSet(state.records) :
                    r.id \notin IdsOf(tasks[t].resp)
                        => r.id \notin IdsOf(state'.records)]_vars

\* a forced full sync has just dropped a cached record that the remote
\* store did not return
C7_Witness ==
    \E t \in Tasks :
        /\ tasks[t].kind = "sync"
        /\ tasks[t].pc = "done"
        /\ tasks[t].sync = "ok"
        /\ tasks[t].force
        /\ ~tasks[t].fallback
        /\ tasks[t].snapLast > 0
        /\ \E r \in SeqToSet(tasks[t].snapRecords) :
              /\ r.id \notin IdsOf(tasks[t].resp)
              /\ r.id \notin IdsOf(state.records)
        /\ SeqToSet(state.records) = SeqToSet(tasks[t].resp)

\* C8: a sync(false) with watermark > 0 whose incremental fetch fails and
\* whose full fetch succeeds ends with syncing = false, an empty error and
\* the record set a forced full sync publishes for the same remote rows:
\* the fetched set, replacing the cached one.
C8_FallbackReplaces ==
    [][\A t \in Tasks :
          (/\ InSync(t)
           /\ tasks[t].fallback
           /\ Settles(t)
           /\ tasks'[t].sync = "ok") =>
              /\ tasks[t].snapLast > 0
              /\ state'.syncing = FALSE
              /\ state'.error = ""
              /\ SeqToSet(state'.records) = SeqToSet(tasks[t].resp)
              /\ Len(state'.records) = Len(tasks[t].resp)
              /\ state'.records = SortById(tasks[t].resp)]_vars

\* a sync has just ended after the fallback and has replaced a cached set
\* that differed from the remote rows
C8_Witness ==
    \E t \in Tasks :
        /\ InSync(t)
        /\ tasks[t].pc = "done"
        /\ tasks[t].sync = "ok"
        /\ tasks[t].fallback
        /\ SeqToSet(tasks[t].snapRecords) # SeqToSet(tasks[t].resp)
        /\ tasks[t].snapRecords # <<>>
        /\ SeqToSet(state.records) = SeqToSet(tasks[t].resp)
        /\ ~state.syncing
        /\ state.error = ""

\* C9: the metadata a successful sync publishes has lastRecordId = the
\* greatest identity of the published set (0 for the empty set),
\* recordCount = the number of published records, isStale = false.
C9_MetaDescribesRecords ==
    [][\A t \in Tasks :
          (Settles(t) /\ tasks'[t].sync = "ok") =>
              /\ state'.meta.lastRecordId =
                    IF state'.records = <<>> THEN 0
                    ELSE Max(IdsOf(state'.records))
              /\ state'.meta.recordCount = Len(state'.records)
              /\ state'.meta.isStale = FALSE]_vars

\* an incremental sync has just merged new records into a cached set and
\* raised the watermark to their greatest identity
C9_Witness ==
    \E t \in Tasks :
        /\ tasks[t].pc = "done"
        /\ tasks[t].sync = "ok"
        /\ ~tasks[t].force
        /\ tasks[t].snapLast > 0
        /\ Len(state.records) > Len(tasks[t].snapRecords)
        /\ Len(state.records) >= 2
        /\ state.meta.lastRecordId > tasks[t].snapLast
        /\ state.meta.lastRecordId = Max(IdsOf(state.records))
        /\ state.meta.recordCount = Len(state.records)

\* C10: every record set a successful sync publishes is strictly ascending
\* by identity.
C10_PublishedStrictlyAscending ==
    [][\A t \in Tasks :
          (Settles(t) /\ tasks'[t].sync = "ok") =>
              \A i \in 1..(Len(state'.records) - 1) :
                  state'.records[i].id < state'.records[i + 1].id]_vars

\* C11: in every reachable published state, whatever the interleaving of
\* sync, createRecord, updateRecord and deleteRecord, no two records of the
\* published set carry the same identity.
C11_PublishedIdentitiesUnique ==
    \A i, j \in DOMAIN state.records :
        state.records[i].id = state.records[j].id => i = j

\* C13: when createRecord settles successfully (remote create and
\* reconciling sync both succeeded), the identity it returns is the one the
\* remote store assigned, and whenever the remote store returned the record
\* of that identity to the reconciling sync, the published record of that
\* identity is that returned record.
C13_CreateReconciledToAuthoritative ==
    [][\A t \in Tasks :
          (/\ Settles(t)
           /\ tasks'[t].kind = "create"
           /\ tasks'[t].ret = "ok"
           /\ tasks'[t].sync = "ok") =>
              /\ tasks'[t].id \in 1..(nextId - 1)
              /\ \A r \in SeqToSet(tasks[t].resp) :
                    r.id = tasks[t].id =>
                        \A i \in DOMAIN state'.records :
                            state'.records[i].id = r.id =>
                                state'.records[i] = r]_vars

\* C14: a record created while the remote store is unreachable (the create
\* request never arrives there and createRecord settles) is kept in the
\* local record set: the published set has gained a record with the
\* submitted fields.
C14_OfflineCreateKeptLocally ==
    [][\A t \in Tasks :
          (/\ Settles(t)
           /\ tasks[t].kind = "create"
           /\ tasks[t].pc = "req") =>
              /\ Len(state'.records) = Len(state.records) + 1
              /\ state'.records[Len(state'.records)].x_name = tasks[t].name]_vars

\* sync(false): the call of sync in tk was made with forceFullRefresh false
\* (the flag is set on the way only by the fallback)
CalledIncremental(tk) ==
    /\ tk.kind \in {"sync", "tick"}
    /\ ~tk.force \/ tk.fallback

\* the record set the successful sync in tk published
Published(tk) == MergeRecords(tk.force, tk.snapLast, tk.snapRecords, tk.resp)

\* the sync(false) in slot t runs in succession to the successful
\* sync(false) in slot u: it started from what u published, and that is
\* still what is published (in SpecSession the remote store never changes)
InSuccession(u, t) ==
    /\ u # t
    /\ tasks[u].pc = "done"
    /\ tasks[u].sync = "ok"
    /\ CalledIncremental(tasks[u])
    /\ CalledIncremental(tasks[t])
    /\ tasks[t].snapRecords = Published(tasks[u])
    /\ tasks[t].snapLast = NewMeta(Published(tasks[u]), now).lastRecordId
    /\ state.records = tasks[t].snapRecords
    /\ state.meta.lastRecordId = tasks[t].snapLast

InitializeInFlight(t) ==
    tasks[t].kind = "initialize" /\ tasks[t].pc # "done"

\* what an initialize that found no cached record leaves when it
\* completes: loading is false, and if the full fetch succeeded the
\* published records are the fetched rows in ascending order, with the
\* watermark and the count of that set
InitializeEmptyCompletes ==
    \A t \in Tasks :
        (Settles(t) /\ tasks[t].kind = "initialize") =>
            /\ state'.loading = FALSE
            /\ tasks'[t].sync = "ok" =>
                  /\ state'.records = SortById(tasks[t].resp)
                  /\ state'.meta.lastRecordId =
                        IF tasks[t].resp = <<>> THEN 0
                        ELSE Max(IdsOf(tasks[t].resp))
                  /\ state'.meta.recordCount = Len(tasks[t].resp)

MirrorHasRecords ==
    storage.data # <<>> /\ storage.meta # <<>> /\ storage.data[1] # <<>>

\* C16: a call of initialize that finds records in the mirror publishes,
\* in the run of the call itself, the mirror's records and metadata with
\* loading false; it starts a sync exactly when the stored lastSyncTime is
\* more than the freshness window back; and when it returns the timer is
\* armed while that sync is still in flight (no call of initialize stays
\* behind awaiting it).
C16_InitializeShowsMirror ==
    [][(mounts'.inits = mounts.inits + 1 /\ MirrorHasRecords) =>
          LET stale == now - storage.meta[1].lastSyncTime > CACHE_DURATION
              started == {t \in Tasks : tasks[t].kind = "none" /\ tasks'[t].kind # "none"}
          IN /\ state'.records = storage.data[1]
             /\ state'.meta = [storage.meta[1] EXCEPT !.isStale = stale]
             /\ state'.loading = FALSE
             /\ (started # {}) <=> stale
             /\ \A t \in started :
                   /\ tasks'[t].kind = "sync"
                   /\ tasks'[t].pc \in {"incrReq", "fullReq"}
                   /\ ~tasks'[t].force
             /\ syncInterval' # 0
             /\ syncInterval' \in armed']_vars

\* initialize has just shown a stale mirror: its background sync is in
\* flight, the timer is armed and loading is false
C16_Witness ==
    /\ mounts.inits = 1
    /\ calls = 1
    /\ MirrorHasRecords
    /\ state.records = storage.data[1]
    /\ state.meta.isStale
    /\ ~state.loading
    /\ syncInterval \in armed
    /\ \E t \in Tasks :
          /\ tasks[t].kind = "sync"
          /\ tasks[t].pc = "incrReq"
          /\ tasks[t].snapRecords = state.records

\* C17: once destroy has been called as often as initialize, no periodic
\* background sync starts any more (no step in which the interval callback
\* calls sync), also when destroy was called while initialize was still
\* awaiting its initial sync.
C17_NoPeriodicSyncAfterDestroy ==
    [][(mounts.inits > 0 /\ mounts.destroys = mounts.inits) =>
          \A t \in Tasks :
              ~(tasks[t].kind = "none" /\ tasks'[t].kind = "tick")]_vars

\* the call of forceRefresh in slot t completes with a successful fetch
RefreshSucceeds(t) ==
    Settles(t) /\ tasks[t].kind = "refresh" /\ tasks'[t].sync = "ok"

\* the published records are the full remote set in ascending order
PublishedIsRemote == state'.records = SetToSeq(remote)

\* the mirror, as the next load reads it, holds the published records
MirrorIsPublished ==
    loadFromStorage(storage', now).records = state'.records

C19_FailedRefreshKeepsCache ==
    [][\A t \in Tasks :
          (/\ Settles(t)
           /\ tasks[t].kind = "refresh"
           /\ tasks'[t].sync = "failed"
           /\ calls = 1) =>
              /\ state'.records = tasks[t].snapRecords
              /\ state'.meta = state.meta
              /\ loadFromStorage(storage', now).records = tasks[t].snapRecords]_vars

\* minutes between the lastSyncTime stored in the mirror and now
MirrorAge == now - storage.meta[1].lastSyncTime

\* C20: metadata loaded from the mirror (by createCacheStore when the page
\* is loaded, and by initialize when it shows the mirror) carries the
\* stored lastSyncTime, lastRecordId and recordCount, and isStale is true
\* exactly when now minus the stored lastSyncTime is strictly greater than
\* the freshness window; with no mirror the loaded metadata is
\* lastSyncTime 0, lastRecordId 0, recordCount 0, isStale true.
C20_StalenessOfLoadedMeta ==
    /\ [](calls = 0 =>
            IF storage.data # <<>> /\ storage.meta # <<>>
            THEN /\ state.meta.isStale = (MirrorAge > CACHE_DURATION)
                 /\ state.meta.lastSyncTime = storage.meta[1].lastSyncTime
                 /\ state.meta.lastRecordId = storage.meta[1].lastRecordId
                 /\ state.meta.recordCount = storage.meta[1].recordCount
            ELSE state.meta = [lastSyncTime |-> 0, lastRecordId |-> 0,
                               recordCount |-> 0, isStale |-> TRUE])
    /\ [][(mounts'.inits = mounts.inits + 1 /\ MirrorHasRecords) =>
             /\ MirrorAge = CACHE_DURATION + 1 => state'.meta.isStale
             /\ MirrorAge = CACHE_DURATION => ~state'.meta.isStale
             /\ MirrorAge = CACHE_DURATION - 1 => ~state'.meta.isStale
             /\ state'.meta.isStale = (MirrorAge > CACHE_DURATION)]_vars

\* the page has been loaded over a mirror written exactly one freshness
\* window ago and initialize has shown it: it is not stale
C20_Witness ==
    /\ MirrorHasRecords
    /\ MirrorAge = CACHE_DURATION
    /\ mounts.inits = 1
    /\ calls = 1
    /\ state.records = storage.data[1]
    /\ ~state.meta.isStale
    /\ \A t \in Tasks : tasks[t].kind = "none"

\* C21: at every reachable state the two keys of the durable mirror are
\* written together and the persisted metadata describes the persisted
\* record set: recordCount is the number of persisted records and
\* lastRecordId their greatest identity (0 for none).
C21_MirrorWrittenAtomically ==
    /\ (storage.data = <<>>) <=> (storage.meta = <<>>)
    /\ (storage.data # <<>> /\ storage.meta # <<>>) =>
          /\ storage.meta[1].recordCount = Len(storage.data[1])
          /\ storage.meta[1].lastRecordId =
                IF storage.data[1] = <<>> THEN 0
                ELSE Max(IdsOf(storage.data[1]))

\* C22: openDB makes at most one open request, and all callers whose call
\* has resolved hold the identical handle, also when two calls were made
\* before the first open request had succeeded.
C22_OneOpenRequestOneHandle ==
    /\ idb.opens <= 1
    /\ \A c, d \in Callers :
          (idb.caller[c].pc = "open" /\ idb.caller[d].pc = "open") =>
              idb.caller[c].handle = idb.caller[d].handle

\* C23: bulkAdd has resolved for a non-empty batch only when every record
\* of the batch is durably written (the transaction has committed); it has
\* rejected when a write failed; for an empty batch it resolves at once.
C23_BulkAddResolvesWhenDurable ==
    /\ (idb.promise = "resolved" /\ idb.batch # <<>>) =>
          /\ idb.tx = "committed"
          /\ SeqToSet(idb.batch) \subseteq idb.store
    /\ (idb.tx = "aborted" /\ idb.executed > idb.completed) =>
          idb.promise = "rejected"
    /\ (idb.tx # "none" /\ idb.batch = <<>>) => idb.promise = "resolved"

\* C24: an operation of the remote client issues exactly one request and
\* never another one for the same call; when the response says success =
\* false it throws an Error with the server's message, or 'API Error' when
\* there is none; when it says success = true it returns the id
\* (createRecord), the results (searchRecords, searchModel) or the result
\* (updateRecord, deleteRecord) of the response.
C24_OneRequestAndUnwrap ==
    /\ [](client.op # "none" => client.sent = 1)
    /\ [][client'.sent > client.sent => client'.ops = client.ops + 1]_vars
    /\ [][(client.pc = "json" /\ client'.pc = "done") =>
             LET body == client.envelope[1]
             IN IF ~body.success
                THEN /\ client'.outcome = "throw"
                     /\ client'.value =
                           IF body.error # "" THEN body.error ELSE "API Error"
                ELSE /\ client'.outcome = "return"
                     /\ client.op = "createRecord" => client'.value = body.id
                     /\ client.op \in {"searchRecords", "searchModel"} =>
                           client'.value = body.results
                     /\ client.op \in {"updateRecord", "deleteRecord"} =>
                           client'.value = body.result]_vars

\* the proxy answered a searchRecords with a failure envelope carrying a
\* message, and the operation has thrown that message after one request
C24_Witness ==
    /\ client.op = "searchRecords"
    /\ client.pc = "done"
    /\ client.sent = 1
    /\ client.envelope = <<Envelope(FALSE, "Access Denied", 0, <<>>, FALSE)>>
    /\ client.outcome = "throw"
    /\ client.value = "Access Denied"

\* the call in slot t is inside sync(): it has published the start of the
\* sync and awaits one of its fetches
SyncInFlight(t) ==
    /\ InSync(t)
    /\ tasks[t].pc \in {"incrReq", "incrResp", "fullReq", "fullResp"}

\* C25: in every state in which at least one sync() is in flight the
\* published syncing flag is true, also when two syncs overlap and the
\* first of them has completed.
C25_SyncingWhileInFlight ==
    (\E t \in Tasks : SyncInFlight(t)) => state.syncing

\* C30: after deleteRecord(X) has returned successfully, X is absent from
\* the published set in every later state, also when a sync that had taken
\* its snapshot before the delete completes after it.
C30_DeletedStaysAbsent ==
    \A t \in Tasks :
        (tasks[t].kind = "delete" /\ tasks[t].pc = "done" /\ tasks[t].ret = "ok")
            => tasks[t].id \notin IdsOf(state.records)

\* the call in slot t is a sync() that starts in this step
SyncStarts(t) == tasks[t].kind = "none" /\ tasks'[t].kind = "sync"

\* the step is one of the sync in slot t, which was awaiting a fetch
SyncSteps(t) == SyncInFlight(t) /\ tasks'[t] # tasks[t]

\* C27: the start of a sync changes only syncing (to true) and error (to
\* empty), records and metadata stay as published; and no step of a sync
\* before its completion changes the published records: a step of the sync
\* either leaves them as they are or is its successful end, which
\* publishes the final merged set.
C27_SyncStartFrame ==
    /\ [][\A t \in Tasks : SyncStarts(t) =>
             /\ state'.syncing = TRUE
             /\ state'.error = ""
             /\ state'.records = state.records
             /\ state'.meta = state.meta
             /\ state'.loading = state.loading]_vars
    /\ [][\A t \in Tasks : SyncSteps(t) =>
             \/ state'.records = state.records
             \/ /\ tasks'[t].pc = "done"
                /\ tasks'[t].sync = "ok"
                /\ state'.records = Published(tasks[t])]_vars

\* a sync() has started over a published record and has fetched a newer
\* one: the published set is still the one from before the sync
C27_Witness ==
    \E t \in Tasks :
        /\ tasks[t].kind = "sync"
        /\ tasks[t].pc = "incrResp"
        /\ tasks[t].resp # <<>>
        /\ state.syncing
        /\ state.records # <<>>
        /\ state.records = tasks[t].snapRecords

\* the sync of the call in slot t has completed and the call goes on
SyncCompleted(t) == InSync(t) /\ tasks[t].pc = "done"

\* C28: a sync() whose remote calls are answered, with a result or with a
\* failure, completes; it does not raise into its caller, the state it
\* publishes at its completion has syncing = false, and a failure shows as
\* the published error message.
C28_SyncCompletesQuietly ==
    /\ \A t \in Tasks : SyncInFlight(t) ~> SyncCompleted(t)
    /\ [][\A t \in Tasks : (SyncInFlight(t) /\ Settles(t)) =>
             /\ tasks'[t].ret = "ok"
             /\ state'.syncing = FALSE
             /\ tasks'[t].sync = "failed" => state'.error \in RemoteErrors
             /\ tasks'[t].sync = "ok" => state'.error = ""]_vars

\* a sync() whose incremental and full fetches both failed has completed:
\* the flag is down and the failure is the published error
C28_Witness ==
    \E t \in Tasks :
        /\ tasks[t].kind = "sync"
        /\ tasks[t].pc = "done"
        /\ tasks[t].fallback
        /\ tasks[t].sync = "failed"
        /\ tasks[t].ret = "ok"
        /\ ~state.syncing
        /\ state.error \in RemoteErrors

\* C29: in every published state, as time advances without a successful
\* sync, meta.isStale is true whenever now - meta.lastSyncTime exceeds the
\* freshness window of 5 minutes.
C29_StaleWhenWindowExceeded ==
    (state.meta.lastSyncTime > 0 /\ now - state.meta.lastSyncTime > CACHE_DURATION)
        => state.meta.isStale

\* updateRecord(id, {x_name}) in slot t has succeeded remotely and its
\* reconciling sync has completed
UpdateCompleted(t) ==
    /\ tasks[t].kind = "update"
    /\ tasks[t].pc = "done"
    /\ tasks[t].ret = "ok"
    /\ tasks[t].sync = "ok"

\* the published set holds the record of the update in slot t as patched
PatchPublished(t) ==
    \E i \in DOMAIN state.records :
        /\ state.records[i].id = tasks[t].id
        /\ state.records[i].x_name = tasks[t].name

\* C26: two updateRecord calls for different identities, both remote
\* updates succeeded: when both calls and their reconciling syncs have
\* completed, in whichever order the syncs finish, the published state
\* holds both patches.
C26_BothPatchesPublished ==
    \A t, u \in Tasks :
        (UpdateCompleted(t) /\ UpdateCompleted(u) /\ tasks[t].id # tasks[u].id)
            => (PatchPublished(t) /\ PatchPublished(u))

\* no call of an operation of the store is between its start and its end
NoOperationInFlight ==
    \A t \in Tasks : tasks[t].pc \in {"none", "done"}

\* C33: in every published state in which no engine operation is in
\* flight, meta.recordCount is the number of published records, whatever
\* sync, createRecord, updateRecord and deleteRecord calls came before.
C33_RecordCountIsLength ==
    NoOperationInFlight => state.meta.recordCount = Len(state.records)

\* the sync of the call in slot t completes in this step with a successful
\* fetch and both writes to storage succeeded
SyncSucceedsAndSaves(t) ==
    /\ InSync(t)
    /\ Settles(t)
    /\ tasks'[t].sync = "ok"
    /\ tasks'[t].save = "ok"

\* C32: right after a successful sync completes, with the storage writes
\* succeeding and under any overlap of syncs, the durable mirror holds
\* exactly the published record set and the published lastRecordId and
\* recordCount.
C32_MirrorIsPublishedAfterSync ==
    [][\A t \in Tasks :
          SyncSucceedsAndSaves(t) =>
              /\ storage'.data = <<state'.records>>
              /\ storage'.meta # <<>>
              /\ storage'.meta[1].lastRecordId = state'.meta.lastRecordId
              /\ storage'.meta[1].recordCount = state'.meta.recordCount
              /\ storage'.meta[1].recordCount = Len(state'.records)]_vars

\* a sync has completed and saved while another call's sync, started over
\* an older snapshot, is still awaiting its fetch: mirror and published
\* state agree on a non-empty set
C32_Witness ==
    \E t, u \in Tasks :
        /\ InSync(t)
        /\ tasks[t].pc = "done"
        /\ tasks[t].sync = "ok"
        /\ tasks[t].save = "ok"
        /\ SyncInFlight(u)
        /\ tasks[u].snapRecords # state.records
        /\ state.records # <<>>
        /\ storage.data = <<state.records>>
        /\ storage.meta # <<>>
        /\ storage.meta[1].recordCount = Len(state.records)

\* C34: at most one periodic sync timer is armed at any time, whatever the
\* sequence and interleaving of initialize() and destroy() calls: the only
\* timer that can be armed is the one syncInterval refers to, since arming
\* cancels that one first.
C34_AtMostOneTimerArmed ==
    /\ Cardinality(armed) <= 1
    /\ armed \subseteq {syncInterval}

\* two initialize() calls have overlapped and both have armed the timer:
\* the first timer was cancelled by the second arming
C34_Witness ==
    /\ mounts.inits = 2
    /\ mounts.destroys = 0
    /\ \A t \in Tasks : tasks[t].kind = "initialize" /\ tasks[t].pc = "done"
    /\ syncInterval = 2
    /\ armed = {2}

\* deleteRecord(id) in slot t has returned true
DeleteReturned(t) ==
    /\ tasks[t].kind = "delete"
    /\ tasks[t].pc = "done"
    /\ tasks[t].ret = "ok"

\* the identities of the records initialize() would load from the mirror
MirrorIds == IdsOf(loadFromStorage(storage, now).records)

\* C31: after deleteRecord(X) has returned successfully with no sync in
\* flight, X is not in the durable mirror any more, so that an
\* initialize() that follows does not publish X again.
C31_DeletedNotInMirror ==
    \A t \in Tasks :
        (DeleteReturned(t) /\ \A u \in Tasks : ~SyncInFlight(u))
            => tasks[t].id \notin MirrorIds

====
